---- MODULE Spec2Model ----
(***************************************************************************)
(* A model of journal.py: a command-line tool that creates or opens the    *)
(* journal file of a date, optionally chosen in a curses date picker that  *)
(* lists the last seven days.                                              *)
(*                                                                         *)
(* Dates are day-of-year ordinals of 2024; the file system is a function   *)
(* from dates (one journal file per date) to the file's lines; the         *)
(* terminal is a height and a width.                                       *)
(***************************************************************************)
EXTENDS Integers, Sequences, FiniteSets, TLC

(***************************************************************************)
(* Bounds of the model.                                                    *)
(***************************************************************************)
\* the clock reads a day in FirstDay..FirstDay+ClockSpan (3 March 2024 on)
ClockSpan == 0
\* the output directory holds at most this many journal files
MaxFiles == 1
\* a file holds at most this many lines written by the user
MaxUserLines == 1

\* day-of-year of 3 March 2024, so that the window starts in February
FirstDay == 31 + 29 + 3
LastDay == FirstDay + ClockSpan
\* every date a window can hold
Days == (FirstDay - 6)..LastDay

\* terminal sizes <<height, width>>: too short for the rows, so short that
\* the instructions share a line with a row, too narrow, and roomy
Terms == {<<5, 80>>, <<12, 80>>, <<24, 17>>, <<24, 80>>}

(***************************************************************************)
(* Keys (curses.KEY_UP, curses.KEY_DOWN, ord("\n"), ord("q"), any other).  *)
(***************************************************************************)
KEY_UP == "KEY_UP"
KEY_DOWN == "KEY_DOWN"
KEY_ENTER == "ENTER"
KEY_Q == "q"
KEY_OTHER == "other"
NoKey == "none"

(***************************************************************************)
(* Values of variables that hold nothing yet.                              *)
(***************************************************************************)
NoDate == 0
NoRow == -1
NoStatus == -1
\* a file that does not exist, and one that holds lines
Absent == [exists |-> FALSE, lines |-> <<>>]
File(lines) == [exists |-> TRUE, lines |-> lines]

(***************************************************************************)
(* get_title: date.strftime("%Y-%m-%d-%a").upper()                         *)
(***************************************************************************)
MonthDays == <<31, 29, 31, 30, 31, 30, 31, 31, 30, 31, 30, 31>>
DayNames == <<"MON", "TUE", "WED", "THU", "FRI", "SAT", "SUN">>

RECURSIVE MonthOf(_, _)
\* the month that holds day-of-year doy, searching from month m
MonthOf(doy, m) ==
    IF doy <= MonthDays[m] THEN m ELSE MonthOf(doy - MonthDays[m], m + 1)

RECURSIVE DayOfMonth(_, _)
DayOfMonth(doy, m) ==
    IF doy <= MonthDays[m] THEN doy ELSE DayOfMonth(doy - MonthDays[m], m + 1)

\* 1 January 2024 is a Monday
get_title(date) ==
    [y |-> 2024, m |-> MonthOf(date, 1), d |-> DayOfMonth(date, 1),
     a |-> DayNames[((date - 1) % 7) + 1]]

\* len(title): four digits, two, two, three letters and three dashes
TitleLen == 14

(***************************************************************************)
(* File contents: a sequence of lines.                                     *)
(***************************************************************************)
TitleLine(title) == [kind |-> "title", title |-> title]
RuleLine(n) == [kind |-> "rule", len |-> n]
BlankLine == [kind |-> "blank"]
UserLine == [kind |-> "user"]

\* the two writes of create_journal_file
FirstWrite(title) == <<TitleLine(title)>>
SecondWrite(title) == <<RuleLine(TitleLen), BlankLine>>
Header(date) == FirstWrite(get_title(date)) \o SecondWrite(get_title(date))

\* os.path.exists
Exists(files, date) == files[date].exists

\* get_file_line_count that skips blank lines
get_file_line_count_NoBlank(files, date) ==
    IF ~Exists(files, date) THEN 0
    ELSE Len(SelectSeq(files[date].lines, LAMBDA l : l # BlankLine))

\* get_file_line_count
get_file_line_count(files, date) ==
    IF ~Exists(files, date) THEN 0 ELSE Len(files[date].lines)

RECURSIVE UserLines(_)
UserLines(n) == IF n = 0 THEN <<>> ELSE Append(UserLines(n - 1), UserLine)

\* what a file that no run of the program completed holds before the first
\* run: nothing, or a header cut after its title; the complete journals are
\* the ones the runs write
InitialContent(date, i) ==
    IF i = 1 THEN <<>> ELSE FirstWrite(get_title(date))

VARIABLES
    pc,            \* where the program is
    created,       \* the dates whose file a run of the program has written
    now,           \* the clock: the current day
    term,          \* the terminal: <<height, width>>
    dirExists,     \* os.path.isdir(args.out)
    args_select,   \* args.select
    fs,            \* the files of the output directory, by date
    buf,           \* the lines written to the open file and not yet flushed
    displayHeld,   \* curses.wrapper holds the terminal
    picker,        \* NotStarted, Browsing, Confirmed, Cancelled, Failed
    today,         \* select_date: today
    dates,         \* select_date: dates
    current_row,   \* select_date: current_row
    files_exist,   \* select_date: files_exist
    line_counts,   \* select_date: line_counts
    key,           \* select_date: key
    screen,        \* what the last refresh shows
    date,          \* main: date
    exit_status,   \* the status the process exited with
    editor_calls,  \* the files vi was called with in this run
    fsStart        \* the files when this run started

vars == <<pc, created, now, term, dirExists, args_select, fs, buf, displayHeld,
          picker, today, dates, current_row, files_exist, line_counts, key,
          screen, date, exit_status, editor_calls, fsStart>>

pickerVars == <<picker, today, dates, current_row, files_exist, line_counts,
                key, screen>>

NoScreen == [arrows |-> {}, texts |-> <<>>, help |-> FALSE]

\* the file systems a first run can meet
InitialFiles(dir) ==
    IF ~dir THEN {[d \in Days |-> Absent]}
    ELSE UNION {
        {[d \in Days |-> IF d \in S THEN File(InitialContent(d, c[d]))
                                    ELSE Absent] :
            c \in [S -> 1..2]} :
        S \in {T \in SUBSET Days : Cardinality(T) <= MaxFiles}}

Init ==
    /\ pc = "main"
    /\ created = {}
    /\ now = FirstDay
    /\ term \in Terms
    /\ dirExists \in BOOLEAN
    /\ args_select \in BOOLEAN
    /\ fs \in InitialFiles(dirExists)
    /\ buf = <<>>
    /\ displayHeld = FALSE
    /\ picker = "NotStarted"
    /\ today = NoDate
    /\ dates = <<>>
    /\ current_row = NoRow
    /\ files_exist = <<>>
    /\ line_counts = <<>>
    /\ key = NoKey
    /\ screen = NoScreen
    /\ date = NoDate
    /\ exit_status = NoStatus
    /\ editor_calls = <<>>
    /\ fsStart = fs

(***************************************************************************)
(* main                                                                    *)
(***************************************************************************)
\* MainDirMissing without sys.exit(1): the error is printed and main goes on
MainDirMissing_NoExit ==
    /\ pc = "main"
    /\ ~dirExists
    /\ date' = now
    /\ pc' = "create"
    /\ UNCHANGED <<created, now, term, dirExists, args_select, fs, buf,
                   displayHeld, pickerVars, exit_status, editor_calls, fsStart>>

\* the output directory does not exist: print the error, sys.exit(1)
MainDirMissing ==
    /\ pc = "main"
    /\ ~dirExists
    /\ pc' = "exited"
    /\ exit_status' = 1
    /\ UNCHANGED <<created, now, term, dirExists, args_select, fs, buf,
                   displayHeld, pickerVars, date, editor_calls, fsStart>>

\* MainSelect without the test of args.select: the picker always runs
MainSelect_Always ==
    /\ pc = "main"
    /\ dirExists
    /\ displayHeld' = TRUE
    /\ pc' = "select_date"
    /\ UNCHANGED <<created, now, term, dirExists, args_select, fs, buf,
                   pickerVars, date, exit_status, editor_calls, fsStart>>

\* --select: curses.wrapper sets the terminal up and calls select_date
MainSelect ==
    /\ pc = "main"
    /\ dirExists
    /\ args_select
    /\ displayHeld' = TRUE
    /\ pc' = "select_date"
    /\ UNCHANGED <<created, now, term, dirExists, args_select, fs, buf,
                   pickerVars, date, exit_status, editor_calls, fsStart>>

\* no --select: date = datetime.datetime.now()
MainToday ==
    /\ pc = "main"
    /\ dirExists
    /\ ~args_select
    /\ date' = now
    /\ pc' = "create"
    /\ UNCHANGED <<created, now, term, dirExists, args_select, fs, buf,
                   displayHeld, pickerVars, exit_status, editor_calls, fsStart>>

(***************************************************************************)
(* select_date                                                             *)
(***************************************************************************)
RECURSIVE Reverse(_)
\* list.reverse
Reverse(s) == IF s = <<>> THEN <<>> ELSE Append(Reverse(Tail(s)), Head(s))

\* WindowDates without dates.reverse()
WindowDates_NotReversed(t) == [i \in 1..7 |-> t - (i - 1)]

\* WindowDates with range(6): six days
WindowDates_SixDays(t) == Reverse([i \in 1..6 |-> t - (i - 1)])

\* [(today - datetime.timedelta(days=i)) for i in range(7)], reversed
WindowDates(t) == Reverse([i \in 1..7 |-> t - (i - 1)])

max_row == Len(dates) - 1

\* the loop over dates that fills files_exist
FilesExist(files, ds) == [i \in 1..Len(ds) |-> Exists(files, ds[i])]

\* LineCounts with max(0, ...): the count never goes below zero
LineCounts_Clamped(files, ds) ==
    [i \in 1..Len(ds) |->
        IF Exists(files, ds[i]) /\ get_file_line_count(files, ds[i]) > 3
        THEN get_file_line_count(files, ds[i]) - 3
        ELSE 0]

\* the loop over dates that fills line_counts
LineCounts(files, ds) ==
    [i \in 1..Len(ds) |->
        IF Exists(files, ds[i]) THEN get_file_line_count(files, ds[i]) - 3
        ELSE 0]

\* curs_set, clear, the colours, the dates of the last week, the cursor on
\* today, the files that exist and their line counts
SelectDateInit ==
    /\ pc = "select_date"
    /\ today' = now
    /\ dates' = WindowDates(now)
    /\ current_row' = Len(WindowDates(now)) - 1
    /\ files_exist' = FilesExist(fs, WindowDates(now))
    /\ line_counts' = LineCounts(fs, WindowDates(now))
    /\ picker' = "Browsing"
    /\ pc' = "render"
    /\ UNCHANGED <<created, now, term, dirExists, args_select, fs, buf,
                   displayHeld, key, screen, date, exit_status, editor_calls,
                   fsStart>>

RECURSIVE DecLen(_)
\* len(str(n))
DecLen(n) ==
    IF n < 0 THEN 1 + DecLen(-n)
    ELSE IF n < 10 THEN 1 ELSE 1 + DecLen(n \div 10)

\* display_str of row idx (0-based): the title, and the count if the file exists
DisplayStr(idx) ==
    IF files_exist[idx + 1]
    THEN [title |-> get_title(dates[idx + 1]), count |-> <<line_counts[idx + 1]>>]
    ELSE [title |-> get_title(dates[idx + 1]), count |-> <<>>]

\* len(display_str)
DisplayLen(idx) ==
    IF files_exist[idx + 1]
    THEN TitleLen + 2 + DecLen(line_counts[idx + 1])
    ELSE TitleLen

\* len("Use arrow keys to navigate, Enter to select, q to quit")
HelpLen == 54

\* stdscr.addstr(y, x, s) with len(s) = n in a window of h lines of w
\* columns: curses.error if the position is outside the window or the
\* text runs up to the end of the window
AddstrOK(y, x, n, h, w) ==
    /\ 0 <= y /\ y < h
    /\ 0 <= x /\ x < w
    /\ y * w + x + n < h * w

\* the draws of row idx: the arrow on the selected row, then the text
RowDrawOK(idx, h, w) ==
    LET arrow_x == (w - DisplayLen(idx)) \div 2 - 2
        text_x == (w - DisplayLen(idx)) \div 2
        y == 4 + idx
    IN  /\ (idx = current_row => AddstrOK(y, arrow_x, 1, h, w))
        /\ AddstrOK(y, text_x, DisplayLen(idx), h, w)

\* every addstr of one pass of the loop succeeds
DrawOK(h, w) ==
    /\ \A idx \in 0..max_row : RowDrawOK(idx, h, w)
    /\ AddstrOK(h - 2, 2, HelpLen, h, w)

\* the cells, counted from the top left, that the text of row idx takes
TextCells(idx, w) ==
    LET first == (4 + idx) * w + (w - DisplayLen(idx)) \div 2
    IN  first..(first + DisplayLen(idx) - 1)

\* the cell of the arrow of row idx
ArrowCell(idx, w) == (4 + idx) * w + (w - DisplayLen(idx)) \div 2 - 2

\* the cells that the instructions take
HelpCells(h, w) == ((h - 2) * w + 2)..((h - 2) * w + 2 + HelpLen - 1)

\* the cells written after the arrow of row idx: the texts of the rows
\* from idx on, then the instructions
DrawnAfterArrow(idx, h, w) ==
    HelpCells(h, w) \cup UNION {TextCells(j, w) : j \in idx..max_row}

\* the cells written after the text of row idx
DrawnAfterText(idx, h, w) ==
    HelpCells(h, w) \cup UNION {TextCells(j, w) : j \in (idx + 1)..max_row}

\* what refresh shows: the arrows and the texts that no later addstr wrote
\* over, and the instructions
Shown(h, w) ==
    [arrows |-> {idx \in 0..max_row :
                    /\ idx = current_row
                    /\ ArrowCell(idx, w) \notin DrawnAfterArrow(idx, h, w)},
     texts |-> [i \in 1..Len(dates) |->
                    [str |-> DisplayStr(i - 1),
                     clipped |-> TextCells(i - 1, w)
                                 \cap DrawnAfterText(i - 1, h, w) # {}]],
     help |-> TRUE]

\* Render without stdscr.clear(): the arrows of the passes before stay
Render_NoClear ==
    /\ pc = "render"
    /\ DrawOK(term[1], term[2])
    /\ screen' = [Shown(term[1], term[2]) EXCEPT !.arrows = @ \cup screen.arrows]
    /\ pc' = "getch"
    /\ UNCHANGED <<created, now, term, dirExists, args_select, fs, buf,
                   displayHeld, picker, today, dates, current_row,
                   files_exist, line_counts, key, date, exit_status,
                   editor_calls, fsStart>>

\* Render with the loop that fills files_exist and line_counts inside the
\* while loop: every pass appends the seven entries again
Render_Recounts ==
    /\ pc = "render"
    /\ DrawOK(term[1], term[2])
    /\ screen' = Shown(term[1], term[2])
    /\ files_exist' = files_exist \o FilesExist(fs, dates)
    /\ line_counts' = line_counts \o LineCounts(fs, dates)
    /\ pc' = "getch"
    /\ UNCHANGED <<created, now, term, dirExists, args_select, fs, buf,
                   displayHeld, picker, today, dates, current_row, key, date,
                   exit_status, editor_calls, fsStart>>

\* clear, draw the seven rows and the instructions, refresh
Render ==
    /\ pc = "render"
    /\ DrawOK(term[1], term[2])
    /\ screen' = Shown(term[1], term[2])
    /\ pc' = "getch"
    /\ UNCHANGED <<created, now, term, dirExists, args_select, fs, buf,
                   displayHeld, picker, today, dates, current_row,
                   files_exist, line_counts, key, date, exit_status,
                   editor_calls, fsStart>>

\* RenderFail where select_date is called without curses.wrapper: the
\* terminal is not restored
RenderFail_NoWrapper ==
    /\ pc = "render"
    /\ ~DrawOK(term[1], term[2])
    /\ picker' = "Failed"
    /\ exit_status' = 1
    /\ pc' = "exited"
    /\ UNCHANGED <<created, now, term, dirExists, args_select, fs, buf,
                   displayHeld, today, dates, current_row, files_exist,
                   line_counts, key, screen, date, editor_calls, fsStart>>

\* an addstr raises curses.error: nothing catches it, curses.wrapper
\* restores the terminal and the program ends with a traceback
RenderFail ==
    /\ pc = "render"
    /\ ~DrawOK(term[1], term[2])
    /\ picker' = "Failed"
    /\ displayHeld' = FALSE
    /\ exit_status' = 1
    /\ pc' = "exited"
    /\ UNCHANGED <<created, now, term, dirExists, args_select, fs, buf, today,
                   dates, current_row, files_exist, line_counts, key, screen,
                   date, editor_calls, fsStart>>

\* KeyUp without the test current_row > 0
KeyUp_NoBound ==
    /\ pc = "getch"
    /\ key' = KEY_UP
    /\ current_row' = current_row - 1
    /\ pc' = "render"
    /\ UNCHANGED <<created, now, term, dirExists, args_select, fs, buf,
                   displayHeld, picker, today, dates, files_exist,
                   line_counts, screen, date, exit_status, editor_calls,
                   fsStart>>

\* getch returns KEY_UP
KeyUp ==
    /\ pc = "getch"
    /\ key' = KEY_UP
    /\ current_row' = IF current_row > 0 THEN current_row - 1 ELSE current_row
    /\ pc' = "render"
    /\ UNCHANGED <<created, now, term, dirExists, args_select, fs, buf,
                   displayHeld, picker, today, dates, files_exist,
                   line_counts, screen, date, exit_status, editor_calls,
                   fsStart>>

\* KeyDown with the test current_row <= max_row
KeyDown_OffByOne ==
    /\ pc = "getch"
    /\ key' = KEY_DOWN
    /\ current_row' = IF current_row <= max_row THEN current_row + 1
                      ELSE current_row
    /\ pc' = "render"
    /\ UNCHANGED <<created, now, term, dirExists, args_select, fs, buf,
                   displayHeld, picker, today, dates, files_exist,
                   line_counts, screen, date, exit_status, editor_calls,
                   fsStart>>

\* getch returns KEY_DOWN
KeyDown ==
    /\ pc = "getch"
    /\ key' = KEY_DOWN
    /\ current_row' = IF current_row < max_row THEN current_row + 1
                      ELSE current_row
    /\ pc' = "render"
    /\ UNCHANGED <<created, now, term, dirExists, args_select, fs, buf,
                   displayHeld, picker, today, dates, files_exist,
                   line_counts, screen, date, exit_status, editor_calls,
                   fsStart>>

\* getch returns Enter: select_date returns dates[current_row],
\* curses.wrapper restores the terminal, main goes on with that date
KeyEnter ==
    /\ pc = "getch"
    /\ key' = KEY_ENTER
    /\ picker' = "Confirmed"
    /\ displayHeld' = FALSE
    /\ date' = dates[current_row + 1]
    /\ pc' = "create"
    /\ UNCHANGED <<created, now, term, dirExists, args_select, fs, buf, today,
                   dates, current_row, files_exist, line_counts, screen,
                   exit_status, editor_calls, fsStart>>

\* KeyQuit where main takes None for "no choice" and goes on with today
KeyQuit_GoesOn ==
    /\ pc = "getch"
    /\ key' = KEY_Q
    /\ picker' = "Cancelled"
    /\ displayHeld' = FALSE
    /\ date' = now
    /\ pc' = "create"
    /\ UNCHANGED <<created, now, term, dirExists, args_select, fs, buf, today,
                   dates, current_row, files_exist, line_counts, screen,
                   exit_status, editor_calls, fsStart>>

\* KeyQuit without the branch of q: the key is read and the loop goes on
KeyQuit_Ignored ==
    /\ pc = "getch"
    /\ key' = KEY_Q
    /\ pc' = "render"
    /\ UNCHANGED <<created, now, term, dirExists, args_select, fs, buf,
                   displayHeld, picker, today, dates, current_row,
                   files_exist, line_counts, screen, date, exit_status,
                   editor_calls, fsStart>>

\* getch returns q: select_date returns None, curses.wrapper restores the
\* terminal, main calls sys.exit(0)
KeyQuit ==
    /\ pc = "getch"
    /\ key' = KEY_Q
    /\ picker' = "Cancelled"
    /\ displayHeld' = FALSE
    /\ exit_status' = 0
    /\ pc' = "exited"
    /\ UNCHANGED <<created, now, term, dirExists, args_select, fs, buf, today,
                   dates, current_row, files_exist, line_counts, screen,
                   date, editor_calls, fsStart>>

\* KeyOther where the last branch of the if chain is an else: any other
\* key quits
KeyOther_Quits ==
    /\ pc = "getch"
    /\ key' = KEY_OTHER
    /\ picker' = "Cancelled"
    /\ displayHeld' = FALSE
    /\ exit_status' = 0
    /\ pc' = "exited"
    /\ UNCHANGED <<created, now, term, dirExists, args_select, fs, buf, today,
                   dates, current_row, files_exist, line_counts, screen,
                   date, editor_calls, fsStart>>

\* getch returns any other key
KeyOther ==
    /\ pc = "getch"
    /\ key' = KEY_OTHER
    /\ pc' = "render"
    /\ UNCHANGED <<created, now, term, dirExists, args_select, fs, buf, displayHeld,
                   picker, today, dates, current_row, files_exist,
                   line_counts, screen, date, exit_status, editor_calls,
                   fsStart>>

(***************************************************************************)
(* create_journal_file                                                     *)
(***************************************************************************)
\* CreateExists with the call of vi in the branch of a new file only: an
\* existing file is reported and the function returns
CreateExists_SkipsEditor ==
    /\ pc = "create"
    /\ Exists(fs, date)
    /\ exit_status' = 0
    /\ pc' = "exited"
    /\ UNCHANGED <<created, now, term, dirExists, args_select, fs, buf,
                   displayHeld, pickerVars, date, editor_calls, fsStart>>

\* CreateExists without the test of file_exists: the file is opened with "w"
CreateExists_Overwrites ==
    /\ pc = "create"
    /\ Exists(fs, date)
    /\ fs' = [fs EXCEPT ![date] = File(<<>>)]
    /\ buf' = <<>>
    /\ pc' = "write1"
    /\ UNCHANGED <<created, now, term, dirExists, args_select, displayHeld,
                   pickerVars, date, exit_status, editor_calls, fsStart>>

\* os.path.exists(filepath) is true: the file is left alone
CreateExists ==
    /\ pc = "create"
    /\ Exists(fs, date)
    /\ pc' = "editor"
    /\ UNCHANGED <<created, now, term, dirExists, args_select, fs, buf,
                   displayHeld, pickerVars, date, exit_status, editor_calls,
                   fsStart>>

\* the number of files of the output directory
FileCount(files) == Cardinality({d \in Days : Exists(files, d)})

\* os.path.exists(filepath) is false: open(filepath, "w") creates the file
\* (while the directory has room for one more)
CreateOpen ==
    /\ pc = "create"
    /\ ~Exists(fs, date)
    /\ FileCount(fs) < MaxFiles
    /\ fs' = [fs EXCEPT ![date] = File(<<>>)]
    /\ buf' = <<>>
    /\ pc' = "write1"
    /\ UNCHANGED <<created, now, term, dirExists, args_select, displayHeld,
                   pickerVars, date, exit_status, editor_calls, fsStart>>

\* CreateOpenFail inside a try/except that drops the error: create_journal_file
\* goes on to the editor
CreateOpenFail_Swallowed ==
    /\ pc = "create"
    /\ ~Exists(fs, date)
    /\ pc' = "editor"
    /\ UNCHANGED <<created, now, term, dirExists, args_select, fs, buf,
                   displayHeld, pickerVars, date, exit_status, editor_calls,
                   fsStart>>

\* open(filepath, "w") raises OSError (the directory is not writable):
\* nothing catches it and the program ends with a traceback
CreateOpenFail ==
    /\ pc = "create"
    /\ ~Exists(fs, date)
    /\ exit_status' = 1
    /\ pc' = "exited"
    /\ UNCHANGED <<created, now, term, dirExists, args_select, fs, buf,
                   displayHeld, pickerVars, date, editor_calls, fsStart>>

\* f.write(f"{title}\n"): the line goes to the buffer of the file object
Write1 ==
    /\ pc = "write1"
    /\ buf' = buf \o FirstWrite(get_title(date))
    /\ pc' = "write2"
    /\ UNCHANGED <<created, now, term, dirExists, args_select, fs, displayHeld,
                   pickerVars, date, exit_status, editor_calls, fsStart>>

\* Write2 with one "\n": the blank line is not written
Write2_NoBlank ==
    /\ pc = "write2"
    /\ buf' = Append(buf, RuleLine(TitleLen))
    /\ pc' = "close"
    /\ UNCHANGED <<created, now, term, dirExists, args_select, fs, displayHeld,
                   pickerVars, date, exit_status, editor_calls, fsStart>>

\* f.write("=" * len(title) + "\n\n")
Write2 ==
    /\ pc = "write2"
    /\ buf' = buf \o SecondWrite(get_title(date))
    /\ pc' = "close"
    /\ UNCHANGED <<created, now, term, dirExists, args_select, fs, displayHeld,
                   pickerVars, date, exit_status, editor_calls, fsStart>>

\* the with block ends: the buffer is flushed to the file and the file closed
CloseFile ==
    /\ pc = "close"
    /\ fs' = [fs EXCEPT ![date] = File(fs[date].lines \o buf)]
    /\ buf' = <<>>
    /\ created' = created \cup {date}
    /\ pc' = "editor"
    /\ UNCHANGED <<now, term, dirExists, args_select, displayHeld,
                   pickerVars, date, exit_status, editor_calls, fsStart>>

\* the flush raises OSError (disk full, I/O error) after writing some of the
\* buffer: nothing catches it and the program ends with a traceback
CloseFileFail ==
    /\ pc = "close"
    /\ \E n \in 0..(Len(buf) - 1) :
          fs' = [fs EXCEPT ![date] = File(fs[date].lines \o SubSeq(buf, 1, n))]
    /\ buf' = <<>>
    /\ exit_status' = 1
    /\ pc' = "exited"
    /\ UNCHANGED <<created, now, term, dirExists, args_select, displayHeld,
                   pickerVars, date, editor_calls, fsStart>>

\* the number of lines of the user in a file
UserLineCount(lines) == Len(SelectSeq(lines, LAMBDA l : l = UserLine))

\* subprocess.call(["vi", filepath]): the user leaves the file as it is or
\* adds a line below its header; create_journal_file returns and main ends
Editor ==
    /\ pc = "editor"
    /\ editor_calls' = Append(editor_calls, date)
    /\ \/ fs' = fs
       \/ /\ Exists(fs, date)
          /\ Len(fs[date].lines) >= Len(Header(date))
          /\ UserLineCount(fs[date].lines) < MaxUserLines
          /\ fs' = [fs EXCEPT ![date] = File(Append(fs[date].lines, UserLine))]
    /\ exit_status' = 0
    /\ pc' = "exited"
    /\ UNCHANGED <<created, now, term, dirExists, args_select, buf, displayHeld,
                   pickerVars, date, fsStart>>

(***************************************************************************)
(* The environment: the program is run again, the same day or the next.    *)
(***************************************************************************)
\* if __name__ == "__main__": main(), once more, with or without --select
Restart ==
    /\ pc = "exited"
    /\ now' \in {d \in {now, now + 1} : d <= LastDay}
    /\ args_select' \in BOOLEAN
    /\ pc' = "main"
    /\ picker' = "NotStarted"
    /\ today' = NoDate
    /\ dates' = <<>>
    /\ current_row' = NoRow
    /\ files_exist' = <<>>
    /\ line_counts' = <<>>
    /\ key' = NoKey
    /\ screen' = NoScreen
    /\ date' = NoDate
    /\ exit_status' = NoStatus
    /\ editor_calls' = <<>>
    /\ fsStart' = fs
    /\ UNCHANGED <<created, term, dirExists, fs, buf, displayHeld>>

Next ==
    \/ MainDirMissing
    \/ MainSelect
    \/ MainToday
    \/ SelectDateInit
    \/ Render
    \/ RenderFail
    \/ KeyUp
    \/ KeyDown
    \/ KeyEnter
    \/ KeyQuit
    \/ KeyOther
    \/ CreateExists
    \/ CreateOpen
    \/ CreateOpenFail
    \/ Write1
    \/ Write2
    \/ CloseFile
    \/ CloseFileFail
    \/ Editor
    \/ Restart

Spec == Init /\ [][Next]_vars

(***************************************************************************)
(* The properties.                                                         *)
(***************************************************************************)
Max(a, b) == IF a >= b THEN a ELSE b
Min(a, b) == IF a <= b THEN a ELSE b

\* the picker is running or has ended in this run
PickerStarted == picker # "NotStarted"

\* C1: once the picker is built, whatever keys were read, current_row is
\* in 0..6; in the first Browsing state, before any key, it is 6
C1_CursorInRange ==
    /\ PickerStarted => current_row \in 0..6
    /\ (picker = "Browsing" /\ key = NoKey) => current_row = 6

\* the cursor was moved up to the first row and the picker still browses
C1_Witness ==
    /\ picker = "Browsing"
    /\ pc = "getch"
    /\ key = KEY_UP
    /\ current_row = 0

\* C2: in Browsing on row c, KEY_UP sets the cursor to max(0, c - 1) and
\* KEY_DOWN sets it to min(6, c + 1), and the picker stays in Browsing
C2_Navigation ==
    [][/\ (pc = "getch" /\ key' = KEY_UP) =>
            /\ current_row' = Max(0, current_row - 1)
            /\ picker' = "Browsing"
            /\ pc' = "render"
       /\ (pc = "getch" /\ key' = KEY_DOWN) =>
            /\ current_row' = Min(6, current_row + 1)
            /\ picker' = "Browsing"
            /\ pc' = "render"]_vars

\* KEY_DOWN was read with the cursor on the last row, or on the row before
C2_Witness ==
    /\ picker = "Browsing"
    /\ pc = "render"
    /\ key = KEY_DOWN
    /\ current_row = 6

\* C3: Enter on row c confirms the date of row c of the window built at
\* construction, which is today minus (6 - c) days and one of the seven
\* dates of the window
C3_EnterConfirmsRow ==
    [][(pc = "getch" /\ key' = KEY_ENTER) =>
            /\ picker' = "Confirmed"
            /\ date' = today - (6 - current_row)
            /\ date' = dates[current_row + 1]
            /\ date' \in {today - i : i \in 0..6}]_vars

\* a date was confirmed after the cursor was moved off today
C3_Witness ==
    /\ picker = "Confirmed"
    /\ key = KEY_ENTER
    /\ current_row = 3
    /\ date = today - 3

\* C4: with --select, after q is read the picker is Cancelled and the
\* program has exited with status 0, no file created or changed, the
\* editor not called
C4_CancelNoEffect ==
    key = KEY_Q =>
        /\ args_select
        /\ picker = "Cancelled"
        /\ pc = "exited"
        /\ exit_status = 0
        /\ fs = fsStart
        /\ editor_calls = <<>>

\* q was read after the cursor was moved
C4_Witness ==
    /\ key = KEY_Q
    /\ picker = "Cancelled"
    /\ current_row = 4
    /\ pc = "exited"

\* C5: a key that is none of up, down, Enter, q leaves the cursor and the
\* rows as they are and the picker in Browsing
C5_OtherKeyNoChange ==
    [][(pc = "getch" /\ key' = KEY_OTHER) =>
            /\ current_row' = current_row
            /\ dates' = dates
            /\ files_exist' = files_exist
            /\ line_counts' = line_counts
            /\ picker = "Browsing"
            /\ picker' = "Browsing"
            /\ pc' = "render"]_vars

\* another key was read with the cursor moved, and the picker drew again
C5_Witness ==
    /\ key = KEY_OTHER
    /\ picker = "Browsing"
    /\ pc = "getch"
    /\ current_row = 5

\* C6: the terminal is held only while select_date runs: it is released
\* when the picker has confirmed, was cancelled or failed, and in every
\* state of the program outside the picker
C6_DisplayReleased ==
    /\ pc \notin {"select_date", "render", "getch"} => ~displayHeld
    /\ picker \in {"Confirmed", "Cancelled", "Failed"} => ~displayHeld

\* a draw failed and the program ended
C6_Witness ==
    /\ picker = "Failed"
    /\ pc = "exited"
    /\ ~displayHeld

\* C7: a draw that fails is ignored: the picker stays in Browsing and goes
\* on to read a key, and the program does not end
C7_DrawErrorContained ==
    [][(pc = "render" /\ ~DrawOK(term[1], term[2])) =>
            /\ picker' = "Browsing"
            /\ pc' = "getch"
            /\ exit_status' = NoStatus]_vars

\* C8: when the output directory does not exist the program only exits
\* with a non-zero status: the picker is not started, the terminal not
\* taken, no file created or changed, the editor not called
C8_MissingDirectory ==
    ~dirExists =>
        /\ pc \in {"main", "exited"}
        /\ pc = "exited" => (exit_status # 0 /\ exit_status # NoStatus)
        /\ picker = "NotStarted"
        /\ ~displayHeld
        /\ fs = fsStart
        /\ \A d \in Days : ~Exists(fs, d)
        /\ editor_calls = <<>>

\* the program exited on a missing directory when run with --select
C8_Witness ==
    /\ ~dirExists
    /\ args_select
    /\ pc = "exited"
    /\ exit_status = 1

\* C9: create_journal_file on a file that exists, whatever it holds, goes
\* to the editor without touching any file; and when it reaches the editor
\* the file exists, so that a second call finds it and changes nothing
C9_CreateIdempotent ==
    [][/\ (pc = "create" /\ Exists(fs, date)) =>
            (fs' = fs /\ pc' = "editor")
       /\ pc' = "editor" => Exists(fs', date)]_vars

\* a later run found the file an earlier run created and the user wrote
\* to, and left it as it was
C9_Witness ==
    /\ date \in created
    /\ pc = "editor"
    /\ Exists(fsStart, date)
    /\ fsStart[date].lines = Header(date) \o UserLines(1)
    /\ fs = fsStart

\* the lines of a file start with the complete header of its date
HasHeader(lines, d) ==
    /\ Len(lines) >= Len(Header(d))
    /\ SubSeq(lines, 1, Len(Header(d))) = Header(d)

\* C10: at every point of a run that found the file of its date absent,
\* that file is absent or holds the complete header
C10_NoPartialHeader ==
    (date # NoDate /\ ~Exists(fsStart, date)) =>
        (~Exists(fs, date) \/ HasHeader(fs[date].lines, date))

\* a step of create_journal_file that fails: open leaves the file absent,
\* or the end of the with block leaves it without its complete header
CreationFails ==
    \/ pc = "create" /\ ~Exists(fs, date) /\ ~Exists(fs', date)
    \/ pc = "close" /\ ~HasHeader(fs'[date].lines, date)

\* C11: when the creation of the file fails, with or without the picker,
\* the program ends there with a non-zero status and the editor was not
\* called in that run
C11_CreationErrorEnds ==
    [][CreationFails =>
            /\ pc' = "exited"
            /\ exit_status' # 0
            /\ exit_status' # NoStatus
            /\ editor_calls' = <<>>]_vars

\* a run ended on a failed creation after the picker confirmed a date
C11_Witness ==
    /\ picker = "Confirmed"
    /\ pc = "exited"
    /\ exit_status = 1
    /\ editor_calls = <<>>
    /\ ~Exists(fs, date)

\* no journal file in the output directory
EmptyDir(files) == \A d \in Days : ~Exists(files, d)

\* the dates whose file exists
FilesOf(files) == {d \in Days : Exists(files, d)}

C13_NoSelectBypassesPicker ==
    ~args_select =>
        /\ picker = "NotStarted"
        /\ pc \notin {"select_date", "render", "getch"}
        /\ ~displayHeld
        /\ screen = NoScreen
        /\ date # NoDate => date = now
        /\ \A d \in Days \ {now} : fs[d] = fsStart[d]
        /\ editor_calls \in {<<>>, <<now>>}

\* a run without --select created the file of today and called the editor
C13_Witness ==
    /\ ~args_select
    /\ pc = "exited"
    /\ date = now
    /\ ~Exists(fsStart, now)
    /\ Exists(fs, now)
    /\ editor_calls = <<now>>

\* title u is the calendar day after title t
NextTitle(t, u) ==
    /\ \E k \in 1..7 : t.a = DayNames[k] /\ u.a = DayNames[(k % 7) + 1]
    /\ \/ u.y = t.y /\ u.m = t.m /\ u.d = t.d + 1 /\ u.d <= MonthDays[t.m]
       \/ u.y = t.y /\ u.m = t.m + 1 /\ u.d = 1 /\ t.d = MonthDays[t.m]

C15_LineCountRoundTrip ==
    /\ \A d \in Days :
          /\ ~Exists(fs, d) => get_file_line_count(fs, d) = 0
          /\ d \in created =>
                get_file_line_count(fs, d) = 3 + UserLineCount(fs[d].lines)
    /\ pc \in {"render", "getch"} =>
          \A i \in 1..7 :
              dates[i] \in created =>
                  /\ files_exist[i]
                  /\ line_counts[i] + 3 = 3 + UserLineCount(fs[dates[i]].lines)

\* the picker of a later run shows a file that an earlier run created and
\* the user extended with one line
C15_Witness ==
    /\ pc = "getch"
    /\ \E i \in 1..7 :
          /\ dates[i] \in created
          /\ UserLineCount(fs[dates[i]].lines) = 1
          /\ get_file_line_count(fs, dates[i]) = 4
          /\ line_counts[i] = 1

\* what the picker is to draw for row i (1-based) given the files: the
\* title alone, or the title and the lines of the file less 3
ExpectedText(files, i) ==
    [title |-> get_title(dates[i]),
     count |-> IF Exists(files, dates[i])
               THEN <<Len(files[dates[i]].lines) - 3>>
               ELSE <<>>]

\* C16: while the picker runs, the count of a row whose file exists with L
\* lines is L - 3, below zero when L < 3, and that is the count drawn on
\* every refresh; the row of a file that does not exist is drawn as the
\* title alone
C16_CountNotClamped ==
    /\ pc \in {"render", "getch"} =>
          \A i \in 1..7 :
              /\ files_exist[i] = Exists(fs, dates[i])
              /\ files_exist[i] => line_counts[i] = Len(fs[dates[i]].lines) - 3
              /\ DisplayStr(i - 1) = ExpectedText(fs, i)
    /\ pc = "getch" =>
          \A i \in 1..7 : screen.texts[i].str = ExpectedText(fs, i)

\* the picker shows -3 for an empty file next to rows without a file
C16_Witness ==
    /\ pc = "getch"
    /\ \E i \in 1..7 :
          /\ Exists(fs, dates[i])
          /\ fs[dates[i]].lines = <<>>
          /\ screen.texts[i].str.count = <<-3>>
          /\ ~screen.texts[i].clipped
    /\ \E i \in 1..7 : screen.texts[i].str.count = <<>>

(***************************************************************************)
(* One run of the picker under a user who presses Enter or q in the end:   *)
(* the loop goes on drawing (or fails to draw), and Enter or q is read at  *)
(* one of the reads.                                                       *)
(***************************************************************************)
\* one run of the program, from any of the initial states
OneRun ==
    \/ MainDirMissing
    \/ MainSelect
    \/ MainToday
    \/ SelectDateInit
    \/ Render
    \/ RenderFail
    \/ KeyUp
    \/ KeyDown
    \/ KeyEnter
    \/ KeyQuit
    \/ KeyOther
    \/ CreateExists
    \/ CreateOpen
    \/ CreateOpenFail
    \/ Write1
    \/ Write2
    \/ CloseFile
    \/ CloseFileFail
    \/ Editor

LiveSpec ==
    /\ Init
    /\ [][OneRun]_vars
    /\ WF_vars(Render \/ RenderFail)
    /\ SF_vars(KeyEnter \/ KeyQuit)

PickerEnded == picker \in {"Confirmed", "Cancelled"}

\* C17: the picker leaves Browsing for Confirmed only on Enter and for
\* Cancelled only on q, and otherwise only on a failed draw; once
\* Confirmed or Cancelled it reads no key and moves no cursor for the rest
\* of the run; any other key keeps it in Browsing; and a picker whose user
\* presses Enter or q in the end leaves Browsing
C17_PickerTerminates ==
    /\ [][/\ (picker = "Browsing" /\ picker' # "Browsing") =>
                \/ pc = "getch" /\ key' = KEY_ENTER /\ picker' = "Confirmed"
                \/ pc = "getch" /\ key' = KEY_Q /\ picker' = "Cancelled"
                \/ /\ pc = "render" /\ ~DrawOK(term[1], term[2])
                   /\ picker' = "Failed" /\ key' = key
          /\ (picker = "Browsing" /\ pc = "getch" /\ key' = KEY_ENTER) =>
                picker' = "Confirmed"
          /\ (picker = "Browsing" /\ pc = "getch" /\ key' = KEY_Q) =>
                picker' = "Cancelled"
          /\ (picker = "Browsing" /\ pc = "getch"
                /\ key' \notin {KEY_ENTER, KEY_Q}) =>
                (picker' = "Browsing" /\ pc' = "render")
          /\ PickerEnded =>
                \/ /\ picker' = picker /\ key' = key
                   /\ current_row' = current_row
                   /\ pc' \notin {"select_date", "render", "getch"}
                \/ pc = "exited" /\ pc' = "main" /\ picker' = "NotStarted"]_vars
    /\ (picker = "Browsing") ~> (picker # "Browsing")

\* q ended the picker after the cursor went up to the first row
C17_Witness ==
    /\ picker = "Cancelled"
    /\ key = KEY_Q
    /\ current_row = 0
    /\ pc = "exited"
    /\ exit_status = 0

\* C18: the rows are filled from the files when the picker is built and no
\* later step of the run changes them; a step that stays in Browsing
\* changes the cursor, the key and the screen only; and no step of the
\* picker writes a file
C18_RowsBuiltOnce ==
    [][/\ pc = "select_date" =>
            /\ dates' = WindowDates(now)
            /\ files_exist' = [i \in 1..7 |-> Exists(fs, dates'[i])]
            /\ line_counts' = [i \in 1..7 |->
                                  IF Exists(fs, dates'[i])
                                  THEN Len(fs[dates'[i]].lines) - 3 ELSE 0]
       /\ (PickerStarted /\ picker' # "NotStarted") =>
            /\ today' = today
            /\ dates' = dates
            /\ files_exist' = files_exist
            /\ line_counts' = line_counts
       /\ (picker = "Browsing" /\ picker' = "Browsing") =>
            UNCHANGED <<created, now, term, dirExists, args_select, fs, buf,
                        displayHeld, date, exit_status, editor_calls, fsStart>>
       /\ pc \in {"select_date", "render", "getch"} =>
            (fs' = fs /\ buf' = buf /\ created' = created)]_vars

\* keys moved the cursor and the rows still say what the files held when
\* the picker was built
C18_Witness ==
    /\ pc = "getch"
    /\ key = KEY_DOWN
    /\ current_row = 3
    /\ fs = fsStart
    /\ files_exist = FilesExist(fsStart, dates)
    /\ \E i \in 1..7 : files_exist[i] /\ line_counts[i] = 1

\* every read of a key follows a pass that drew the rows and the
\* instructions, and every key that leaves the picker in Browsing is
\* followed by such a pass before the next read
RedrawnBeforeRead ==
    /\ pc' = "getch" =>
          /\ pc = "render"
          /\ Len(screen'.texts) = 7
          /\ screen'.help
    /\ (pc = "getch" /\ picker' = "Browsing") => pc' = "render"

\* C19 as stated: at every read of a key exactly one row shows the arrow,
\* the row of the cursor, and every key is followed by a full pass of
\* drawing before the next read
C19_OneArrow ==
    [][/\ pc' = "getch" =>
            /\ screen'.arrows = {current_row'}
            /\ Cardinality(screen'.arrows) = 1
       /\ RedrawnBeforeRead]_vars

\* C19, amended: at every read of a key no row but the row of the cursor
\* shows the arrow, and that row shows it when it lies above the line of
\* the instructions (4 + current_row < height - 2); every key is followed
\* by a full pass of drawing before the next read
C19_OneArrowAboveHelp ==
    [][/\ pc' = "getch" =>
            /\ screen'.arrows \subseteq {current_row'}
            /\ 4 + current_row' < term'[1] - 2 =>
                  /\ screen'.arrows = {current_row'}
                  /\ Cardinality(screen'.arrows) = 1
       /\ RedrawnBeforeRead]_vars

\* after a key that changes nothing the picker drew again, with the arrow
\* on the row of the cursor
C19_Witness ==
    /\ pc = "getch"
    /\ key = KEY_OTHER
    /\ current_row = 2
    /\ screen.arrows = {2}
    /\ screen.help

\* the run has a date: main has reached create_journal_file
ReachedFileHandling == date # NoDate

====
